---- MODULE Spec2Model ----
(***************************************************************************)
(* Model of MeetingStreamHandler (webrtc_handler.py): the VAD / endpoint   *)
(* state machine driven by receive(), the segment (ring) buffer, and the   *)
(* asynchronous turn pipeline _handle_pause() that receive() schedules on  *)
(* the event loop with run_coroutine_threadsafe.                           *)
(*                                                                         *)
(* receive() runs on the transport's thread; _handle_pause() runs on the   *)
(* event loop.  One receive() call is one step.  _handle_pause() is split  *)
(* at its suspension points (async with, await) and between the two ring   *)
(* accesses of _write_wav_from_ring (concatenate, clear), because the      *)
(* receive thread can run between them.                                    *)
(*                                                                         *)
(* Durations are in milliseconds as in the source.  A frame payload is     *)
(* represented by the utterance it arrived in (u), its position in that    *)
(* utterance (k) and its sample count in units of one 20 ms frame.  The    *)
(* tunables read from the environment (VAD_COOLDOWN_MS, VAD_MIN_SIL_MS,    *)
(* ...) are set to small values so that every branch of the detector is   *)
(* reached within a few frames; the thresholds rms_start / rms_stop keep   *)
(* their defaults.                                                         *)
(*                                                                         *)
(* Spec is the handler on well-formed frames; IngestSpec is receive()      *)
(* alone on any frames with any debug-log period; SendSpec follows one     *)
(* call of send_json() through its transports; FairSpec adds to Spec that  *)
(* the event loop keeps running the turns scheduled on it.  DetectorSpec   *)
(* is receive() alone with an utterance cap long enough for the dynamic    *)
(* silence cutoff and the ring cap to come into play; DenoiseSpec is       *)
(* receive() alone on streams of any rate and frame length, with and       *)
(* without the denoiser.                                                   *)
(***************************************************************************)
EXTENDS Integers, Sequences, FiniteSets, TLC

\* ------------------------------------------------------------------ bounds
\* number of utterances (IDLE -> RECORDING transitions) in one run
MaxUtts == 2
\* number of times one caller asks for a cached collaborator
MaxCalls == 2

\* --------------------------------------------------------- configuration
frame_ms == 20
cooldown_ms == 30
rms_start == 600
rms_stop == 420
min_silence_ms == 20
max_silence_ms == 60
end_guard_frames == 2
min_speech_ms == 40
\* MAX_UTTERANCE_MS: short where whole turns are followed, long where the
\* detector is studied on its own
short_utt_ms == 100
long_utt_ms == 300
\* ring cap, in units of one frame's samples (48_000 * 30 samples = 1500 frames
\* of 960 samples in the source; kept at twice the utterance cap here)
ring_max_samples == 10
\* samples of one frame, in the same unit
frame_samples == 1
\* self._sr at construction (48_000 Hz), the unit of sample rates
default_sr == 1

\* the rates a stream can announce (48 kHz, 96 kHz) and the sample counts a
\* frame can have (one or two 20 ms frames' worth at 48 kHz)
Rates == {1, 2}

Lengths == {1, 2}

\* energies a frame can have: silence, between the thresholds, speech
RmsLevels == {0, 500, 1000}

VARIABLES
    state,              \* self._state
    cooldown_left,      \* self._cooldown_left
    speech_ms,          \* self._speech_ms
    silence_ms,         \* self._silence_ms
    utt_ms,             \* self._utt_ms
    ring,               \* self._ring : sequence of frames
    pause_in_progress,  \* self._pause_in_progress
    pause_lock,         \* value of self._pause_lock (asyncio.Semaphore(1))
    tasks,              \* _handle_pause coroutines alive on self._loop, in order
    files,              \* temporary WAV files present on disk
    done,               \* history: the _handle_pause that terminated in the
                        \* latest step (NoTask after any other step)
    rx,                 \* history: the locals of the receive() call that was
                        \* the latest step (NoRx after any other step)
    loud_seen,          \* history: some frame so far had rms >= rms_start
    nstart,             \* history: number of utterances started so far
    scen,               \* history: the shape of the frame sequence so far
    recv_log_every,     \* self._recv_log_every (RTC_RECV_LOG_EVERY)
    recv_count,         \* self._recv_count, modulo recv_log_every
    max_utt_ms,         \* self._max_utt_ms (MAX_UTTERANCE_MS)
    sr,                 \* self._sr
    denoiser,           \* self._denoiser and its filter state
    conf,               \* self.refine_with_llm, self._send_json_cb
    sj,                 \* the send_json() call under study (SendSpec only)
    clone,              \* the handler copy() returned (CopySpec only)
    once,               \* a cached collaborator and its callers (OnceSpec only)
    calc,               \* a dyn_cutoff computation (CutoffSpec only)
    archive             \* history: the audio concatenated for each turn so
                        \* far, in order, and the number of schedule errors
                        \* (kept in ArchiveSpec only)

vars == <<state, cooldown_left, speech_ms, silence_ms, utt_ms, ring,
          pause_in_progress, pause_lock, tasks, files, done, rx,
          loud_seen, nstart, scen, recv_log_every, recv_count,
          max_utt_ms, sr, denoiser, conf, sj, clone, once, calc, archive>>

\* what no step of _handle_pause touches besides the detector
ingest == <<loud_seen, nstart, scen, recv_log_every, recv_count,
            max_utt_ms, sr, denoiser, conf, sj, clone, once, calc>>

detector == <<state, cooldown_left, speech_ms, silence_ms, utt_ms>>

\* a buffered frame: k-th frame of utterance u, n samples, denoised or as it
\* was received
FrameOf(u, k, n, dn) == [u |-> u, k |-> k, n |-> n, dn |-> dn]

\* a 20 ms frame of a 48 kHz stream, as received
Frame(u, k) == FrameOf(u, k, frame_samples, FALSE)

\* --------------------------------------------------------------- helpers
Max(a, b) == IF a >= b THEN a ELSE b

Min(a, b) == IF a <= b THEN a ELSE b

RECURSIVE Samples(_)
Samples(r) == IF r = <<>> THEN 0 ELSE Head(r).n + Samples(Tail(r))

\* (mutant: the start threshold is used in every state)
MutVoicedStrict(st, rms) == rms >= rms_start

\* (mutant: the stop threshold is used in every state)
MutVoicedNow(st, rms) == rms >= rms_stop

\* voiced_now: start threshold outside RECORDING, stop threshold inside
VoicedNow(st, rms) ==
    IF st \in {"IDLE", "COOLDOWN"} THEN rms >= rms_start ELSE rms >= rms_stop

\* (mutant: the factor is 0.2)
MutScaled(utt) == utt \div 5

\* int(0.22 * self._utt_ms): the product is non-negative, int() truncates
Scaled(utt) == (22 * utt) \div 100

\* max(lo, min(hi, x))
Clamp(x, lo, hi) == Max(lo, Min(hi, x))

\* (mutant: the cutoff does not grow with the utterance)
MutDynCutoff(utt) == min_silence_ms

\* dyn_cutoff = max(min_silence_ms, min(max_silence_ms, int(0.22 * utt_ms)))
DynCutoff(utt) == Clamp(Scaled(utt), min_silence_ms, max_silence_ms)

\* (mutant: the end guard is dropped, the dynamic cutoff alone decides)
MutEndGuardOk(sil, utt) == sil >= DynCutoff(utt)

\* end_guard_ok
EndGuardOk(sil, utt) ==
    /\ sil >= DynCutoff(utt)
    /\ sil >= end_guard_frames * frame_ms

\* (mutant: every buffered frame counts as speech)
MutSpeechAfter(sp, voiced) == sp + frame_ms

\* if voiced_now: self._speech_ms += self._frame_ms
SpeechAfter(sp, voiced) == IF voiced THEN sp + frame_ms ELSE sp

\* (mutant: the cap cuts one frame late)
MutShouldCutForLength(utt) == utt > max_utt_ms

\* should_cut_for_length
ShouldCutForLength(utt) == utt >= max_utt_ms

ShouldCut(sil, utt) == EndGuardOk(sil, utt) \/ ShouldCutForLength(utt)

\* (mutant: a cut that is not rejected leaves the detector recording)
MutStateAfter(cut) == "RECORDING"

\* enter cooldown to avoid double-fire: self._state = "COOLDOWN" after a cut
\* that was not rejected, dispatched or not
StateAfter(cut) == IF cut THEN "COOLDOWN" ELSE "RECORDING"

\* (mutant: the comparison is inverted)
MutTooShort(speech) == speech > min_speech_ms

\* reject too-short speech (noise)
TooShort(speech) == speech < min_speech_ms

\* (mutant: the cap is not enforced)
MutEvict(r) == r

\* backstop: ring cap, oldest chunks popped first
RECURSIVE Evict(_)
Evict(r) ==
    IF Samples(r) > ring_max_samples /\ r # <<>> THEN Evict(Tail(r)) ELSE r

\* (mutant: the start of an utterance keeps what the buffer holds)
MutClearedAtStart(r) == r

\* self._ring.clear() on the IDLE -> RECORDING transition
ClearedAtStart(r) == <<>>

\* (mutant: only voiced frames are buffered)
MutBuffer(r, f, voiced) == IF voiced THEN Append(r, f) ELSE r

\* self._ring.append(pcm): every frame received in RECORDING is buffered,
\* voiced or not
Buffer(r, f, voiced) == Append(r, f)

\* (mutant: the in-flight flag is not consulted)
MutMayDispatch(inprog) == TRUE

\* the guard of the dispatch in receive()
MayDispatch(inprog) == ~inprog

\* (mutant: receive() waits for the result of the turn in flight)
MutBlockedOn(ts) == ts # <<>>

\* run_coroutine_threadsafe hands back a Future that receive() never waits on,
\* and receive() takes no lock: no scheduled turn holds a receive() back
BlockedOn(ts) == FALSE

\* no _handle_pause has terminated yet
NoTask ==
    [pc |-> "none", turn |-> 0, cut_ring |-> <<>>, cut_utt |-> 0,
     pcm16 |-> <<>>, flushed |-> FALSE, path |-> 0, created |-> 0,
     ev |-> <<>>, stt |-> "none", agent |-> "none", optbound |-> FALSE,
     reply |-> "none", audio |-> FALSE, raised |-> FALSE, calls |-> {}]

\* a freshly scheduled _handle_pause coroutine; cut_ring / cut_utt record the
\* segment buffer and the utterance duration at the cut that scheduled it
NewTask(t, r, utt) ==
    [NoTask EXCEPT !.pc = "sched", !.turn = t, !.cut_ring = r, !.cut_utt = utt]

\* the locals of a receive() call that returned before the state machine ran;
\* frame / outcome say what the latest receive() was given and how it ended
NoRx ==
    [frame |-> "none", outcome |-> "none",
     rms |-> 0, voiced |-> FALSE, started |-> FALSE, interrupt |-> FALSE,
     buffered |-> FALSE,
     cut |-> FALSE, cut_silence |-> FALSE, cut_length |-> FALSE,
     rejected |-> FALSE, dispatched |-> FALSE, sched_error |-> FALSE,
     in_flight |-> FALSE, dyn_cutoff |-> 0, speech |-> 0, silence |-> 0,
     utt |-> 0, n |-> 0, denoise |-> "none", vad |-> FALSE]

\* what receive() can be handed: a (rate, samples) pair it can convert, a pair
\* whose payload is None, something that is not a pair, and a pair whose
\* samples cannot be converted to int16
FrameKinds == {"pcm", "none_payload", "not_pair", "bad_samples"}

\* the debug block logs every recv_log_every-th frame (never when it is 0)
LogsFrame(every, count) == every # 0 /\ (count + 1) % every = 0

\* self._recv_count += 1 when logging is on (kept modulo recv_log_every, which
\* is all the debug block looks at)
Counted(every, count) == IF every # 0 THEN (count + 1) % every ELSE count

\* ts, pcm = frame
Unpacks(kind) == kind # "not_pair"

\* (mutant: whatever unpacks is taken for samples)
MutConverts(kind) == TRUE

\* np.asarray / reshape / astype / rms of the payload
Converts(kind) == kind = "pcm"

\* frame_len = int(self._sr * self._frame_ms / 1000)
FrameLen(rate) == rate * frame_samples

\* self._denoiser is None
NoDenoiser == [on |-> FALSE, N |-> 0, hp |-> FALSE, floor |-> FALSE]

\* SimpleDenoiser(sr=self._sr, frame_ms=self._frame_ms), built in __init__
\* while self._sr is 48_000: N is the frame length of that rate; hp says that
\* the high-pass / pre-emphasis memory (_x1, _pe_x1) has been written, floor
\* that the noise floors (_rms_floor, _psd_floor) have been set
NewDenoiser ==
    [on |-> TRUE, N |-> FrameLen(default_sr), hp |-> FALSE, floor |-> FALSE]

\* if self._denoiser is not None and pcm.shape[0] == frame_len
Offered(d, rate, n) == d.on /\ n = FrameLen(rate)

\* xw = x * self.win: the window has N entries
Fits(d, n) == n = d.N

\* process_20ms_int16: _highpass_preemph runs over the whole frame and stores
\* its memory before the window is applied; the floors are updated after it
Processed(d, n) == [d EXCEPT !.hp = TRUE, !.floor = d.floor \/ Fits(d, n)]

\* (mutant: a frame takes two frame durations off the cooldown)
MutCooldownTick(cd) == cd - 2 * frame_ms

\* self._cooldown_left -= self._frame_ms
CooldownTick(cd) == cd - frame_ms

\* (mutant: the cooldown is declared over one frame early)
MutCooldownOver(cd) == cd <= frame_ms

\* if self._cooldown_left <= 0: self._state = "IDLE"
CooldownOver(cd) == cd <= 0

\* the shape of the frame sequence received so far:
\*   "pre"    only frames of RMS 0
\*   "speech" frames of RMS 0, then only frames of RMS 1000
\*   "tail"   the above, then frames of RMS 0 in the first utterance, no cut yet
\*   "cut"    the above ended in a cut for silence; the cooldown of that cut
\*            is running (any frames)
\*   "off"    anything else
ScenNext(sc, rms, recording, cutS, cut, cooling) ==
    CASE sc = "pre"    -> IF rms = 0 THEN "pre"
                          ELSE IF rms = 1000 THEN "speech" ELSE "off"
      [] sc = "speech" -> IF rms = 1000 THEN "speech"
                          ELSE IF rms = 0 /\ recording /\ nstart = 1
                                 THEN IF cutS THEN "cut"
                                      ELSE IF cut THEN "off" ELSE "tail"
                          ELSE "off"
      [] sc = "tail"   -> IF rms # 0 THEN "off"
                          ELSE IF cutS THEN "cut"
                          ELSE IF cut THEN "off" ELSE "tail"
      [] sc = "cut"    -> IF cooling THEN "cut" ELSE "off"
      [] OTHER         -> "off"

\* send_json() is not being followed
SjIdle ==
    [pc |-> "idle", event |-> "none", send_message |-> FALSE,
     send_message_sync |-> FALSE, cb |-> "none", tried |-> <<>>,
     via |-> "none", got |-> "none"]

\* copy() has not been called
NoClone ==
    [made |-> FALSE, state |-> "IDLE", cooldown_left |-> 0, speech_ms |-> 0,
     silence_ms |-> 0, utt_ms |-> 0, ring |-> <<>>,
     pause_in_progress |-> FALSE, tasks |-> <<>>,
     pause_lock |-> [of |-> "none", value |-> 0],
     denoiser |-> [of |-> "none", st |-> NoDenoiser],
     sr |-> 0, refine_with_llm |-> FALSE, send_json_cb |-> "none"]

\* no cached collaborator is being followed
OnceIdle ==
    [cache |-> "none", broken |-> FALSE, inst |-> 0, built |-> 0, thr |-> <<>>]

\* no dyn_cutoff computation is being followed
CalcIdle ==
    [pc |-> "idle", utt |-> 0, lo |-> 0, hi |-> 0, cutoff |-> 0, next |-> 0]

\* the history is not kept / is kept from the construction on
ArchiveOff == [on |-> FALSE, turns |-> <<>>, failed |-> 0]

ArchiveOn == [on |-> TRUE, turns |-> <<>>, failed |-> 0]

\* the history of schedule errors, where it is kept
Noted(a) == IF a.on THEN [a EXCEPT !.failed = @ + 1] ELSE a

\* (mutant: the flag stays set when run_coroutine_threadsafe raised)
MutFlagAfterSchedule(ok) == TRUE

\* self._pause_in_progress = True, and False again in the handler of the
\* exception run_coroutine_threadsafe raised
FlagAfterSchedule(ok) == ok

\* no call under study is running
Idle ==
    /\ sj = SjIdle
    /\ clone = NoClone
    /\ once = OnceIdle
    /\ calc = CalcIdle

\* the side studies are not running
NoStudy ==
    /\ Idle
    /\ archive = ArchiveOff

\* ------------------------------------------------------------------ Init
\* the fields __init__ sets, the debug-log period and send_json aside
Constructed ==
    /\ state = "IDLE"
    /\ cooldown_left = 0
    /\ speech_ms = 0
    /\ silence_ms = 0
    /\ utt_ms = 0
    /\ ring = <<>>
    /\ pause_in_progress = FALSE
    /\ pause_lock = 1
    /\ tasks = <<>>
    /\ files = {}
    /\ done = NoTask
    /\ rx = NoRx
    /\ loud_seen = FALSE
    /\ nstart = 0
    /\ scen = "pre"
    /\ recv_count = 0
    /\ sr = default_sr

\* RTC_RECV_LOG_EVERY and USE_SIMPLE_DENOISER are unset, the handler is
\* constructed without arguments: the debug log and the denoiser are off,
\* there is no outbound callback
Defaults ==
    /\ recv_log_every = 0
    /\ denoiser = NoDenoiser
    /\ conf = [refine_with_llm |-> FALSE, send_json_cb |-> "none"]

Init ==
    /\ Constructed
    /\ Defaults
    /\ max_utt_ms = short_utt_ms
    /\ NoStudy

\* ------------------------------------------------------------- receive()
\* One call of receive(frame) with a frame of the given kind, announcing
\* the rate ts and, for a convertible frame, holding n samples; rms is the
\* energy of what reaches the detector.  int_ok / sched_ok say whether
\* run_coroutine_threadsafe succeeds for the INTERRUPT_AUDIO send and for
\* _handle_pause (a failure is caught in both places).
Receive(kind, ts, n, rms, int_ok, sched_ok) ==
    LET \* debug block, before the try
        escapes == LogsFrame(recv_log_every, recv_count) /\ ~Unpacks(kind)
        \* try: unpack, self._sr = int(ts), payload None, conversion
        sr1    == IF Unpacks(kind) THEN ts ELSE sr
        passes == Unpacks(kind) /\ Converts(kind)
        \* noise suppression before the energy is taken; a frame the window
        \* does not fit raises, and the handler of the try block returns
        offered == passes /\ Offered(denoiser, sr1, n)
        applied == offered /\ Fits(denoiser, n)
        runs   == passes /\ (offered => applied)
        voiced == VoicedNow(state, rms)
        \* update cooldown
        cd1    == IF state = "COOLDOWN" THEN CooldownTick(cooldown_left)
                                        ELSE cooldown_left
        st1    == IF state = "COOLDOWN" /\ CooldownOver(cd1) THEN "IDLE"
                                                             ELSE state
        \* IDLE: start of speech, or stay idle and return
        starts == st1 = "IDLE" /\ voiced
        st2    == IF starts THEN "RECORDING" ELSE st1
        sp2    == IF starts THEN 0 ELSE speech_ms
        sil2   == IF starts THEN 0 ELSE silence_ms
        utt2   == IF starts THEN 0 ELSE utt_ms
        ring2  == IF starts THEN ClearedAtStart(ring) ELSE ring
        ns     == IF starts THEN nstart + 1 ELSE nstart
        \* RECORDING: buffer the frame, update the counters
        rec    == st2 = "RECORDING"
        utt3   == utt2 + frame_ms
        ring3  == Evict(Buffer(ring2,
                                  FrameOf(ns, utt3 \div frame_ms, n, applied),
                                  voiced))
        sp3    == SpeechAfter(sp2, voiced)
        sil3   == IF voiced THEN 0 ELSE sil2 + frame_ms
        cutS   == rec /\ EndGuardOk(sil3, utt3)
        cutL   == rec /\ ShouldCutForLength(utt3)
        cut    == rec /\ ShouldCut(sil3, utt3)
        reject == cut /\ TooShort(sp3)
        disp   == cut /\ ~reject /\ MayDispatch(pause_in_progress)
    IN  /\ (runs /\ starts) => nstart < MaxUtts
        /\ ~BlockedOn(tasks)
        /\ recv_count' = Counted(recv_log_every, recv_count)
        /\ done' = NoTask
        /\ sr' = sr1
        /\ denoiser' = IF offered THEN Processed(denoiser, n) ELSE denoiser
        /\ archive' = IF runs /\ disp /\ ~sched_ok THEN Noted(archive)
                                                    ELSE archive
        /\ UNCHANGED <<pause_lock, files, recv_log_every, max_utt_ms, conf,
                       sj, clone, once, calc>>
        /\ IF ~runs
              THEN \* the unpacking in the debug block raises out of receive();
                   \* or the try block returns early (payload None) or its
                   \* handler catches the exception and returns the frame
                   /\ rx' = [NoRx EXCEPT
                               !.frame = kind,
                               !.outcome = IF escapes THEN "raised"
                                                      ELSE "returned",
                               !.n = IF passes THEN n ELSE 0,
                               !.denoise = IF offered THEN "raised" ELSE "none"]
                   /\ scen' = "off"
                   /\ UNCHANGED <<detector, ring, pause_in_progress, tasks,
                                  loud_seen, nstart>>
              ELSE \* the state machine runs
                    /\ nstart' = ns
                    /\ loud_seen' = (loud_seen \/ rms >= rms_start)
                    /\ scen' = ScenNext(scen, rms, state = "RECORDING", cutS, cut,
                                        ~rec /\ st1 = "COOLDOWN")
                    /\ rx' = [frame |-> kind, outcome |-> "returned",
                              rms |-> rms, voiced |-> voiced, started |-> starts,
                              interrupt |-> starts /\ int_ok,
                              buffered |-> rec, cut |-> cut, cut_silence |-> cutS,
                              cut_length |-> cutL, rejected |-> reject,
                              dispatched |-> disp /\ sched_ok,
                              sched_error |-> disp /\ ~sched_ok,
                              in_flight |-> pause_in_progress,
                              dyn_cutoff |-> IF rec THEN DynCutoff(utt3) ELSE 0,
                              speech |-> IF rec THEN sp3 ELSE speech_ms,
                              silence |-> IF rec THEN sil3 ELSE silence_ms,
                              utt |-> IF rec THEN utt3 ELSE utt_ms,
                              n |-> n,
                              denoise |-> IF applied THEN "applied"
                                          ELSE IF denoiser.on THEN "skipped"
                                          ELSE "none",
                              vad |-> TRUE]
                    /\ IF ~rec
                          THEN \* COOLDOWN still running, or IDLE and not voiced
                               /\ state' = st1
                               /\ cooldown_left' = cd1
                               /\ UNCHANGED <<speech_ms, silence_ms, utt_ms, ring,
                                              pause_in_progress, tasks>>
                        ELSE IF reject
                          THEN \* reset without transcribing
                               /\ ring' = <<>>
                               /\ state' = "COOLDOWN"
                               /\ cooldown_left' = cooldown_ms
                               /\ speech_ms' = 0
                               /\ silence_ms' = 0
                               /\ utt_ms' = 0
                               /\ UNCHANGED <<pause_in_progress, tasks>>
                        ELSE /\ ring' = ring3
                             /\ utt_ms' = utt3
                             /\ speech_ms' = sp3
                             /\ silence_ms' = sil3
                             /\ state' = StateAfter(cut)
                             /\ cooldown_left' = IF cut THEN cooldown_ms ELSE cd1
                             /\ pause_in_progress' =
                                   IF disp THEN FlagAfterSchedule(sched_ok)
                                           ELSE pause_in_progress
                             /\ tasks' = IF disp /\ sched_ok
                                           THEN Append(tasks, NewTask(ns, ring3, utt3))
                                           ELSE tasks

\* receive() of a well-formed frame: 20 ms of a 48 kHz stream
RecvStep ==
    \E rms \in RmsLevels, int_ok, sched_ok \in BOOLEAN :
        Receive("pcm", default_sr, frame_samples, rms, int_ok, sched_ok)

\* receive() of a malformed frame (it has no energy to speak of, and nothing
\* is scheduled)
RecvMalformed ==
    \E kind \in FrameKinds \ {"pcm"} :
        Receive(kind, default_sr, frame_samples, 0, TRUE, TRUE)

\* receive() of a convertible frame of any announced rate and any length,
\* on a handler whose event loop takes no coroutine (both
\* run_coroutine_threadsafe calls raise, which receive() catches)
RecvAny ==
    \E ts \in Rates, n \in Lengths, rms \in RmsLevels :
        Receive("pcm", ts, n, rms, FALSE, FALSE)

\* ---------------------------------------------------------- _handle_pause()
SetTask(i, t) == [tasks EXCEPT ![i] = t]

RemoveTask(i) == [j \in 1..(Len(tasks) - 1) |-> IF j < i THEN tasks[j]
                                                        ELSE tasks[j + 1]]

Emit(t, e) == [t EXCEPT !.ev = Append(t.ev, e)]

\* history: the collaborators a turn has invoked
Call(t, cs) == [t EXCEPT !.calls = t.calls \cup cs]

\* {"turn_id": ..., "transcription": {...}}
TranscriptionEvent(t) == [type |-> "transcription", turn_id |-> t.turn]

\* the transcription again, an empty micro_agent and null reply fields
MinimalEvent(t) ==
    [type |-> "no_reply", turn_id |-> t.turn, normalized_prompt |-> "",
     action_items |-> <<>>, reply_preview |-> "none", reply_audio |-> FALSE]

\* {"turn_id": ..., "reply_preview": reply, "reply_audio_b64": ..., ...}
FinalEvent(t) ==
    [type |-> "final", turn_id |-> t.turn, reply_preview |-> t.reply,
     reply_audio |-> t.audio]

\* {"error": "processing_failed", "detail": str(e)}: no turn_id
ErrorEvent == [type |-> "error", turn_id |-> 0]

\* (mutant: the empty-transcript test never fires)
MutEmptyTranscript(stt) == FALSE

\* not (en_text or orig or "").strip()
EmptyTranscript(stt) == stt = "empty"

\* dur_ms = int(frames * 1000 / max(1, sr)) of the WAV just written
DurMs(pcm) == (Samples(pcm) * frame_ms) \div FrameLen(Max(1, sr))

\* the semaphore lets a waiter in when its value is positive
LockFree(v) == v > 0

\* async with self._pause_lock: waiters are woken in the order they arrived
Acquire(i) ==
    /\ tasks[i].pc = "sched"
    /\ LockFree(pause_lock)
    /\ \A j \in 1..(i - 1) : tasks[j].pc # "sched"
    /\ pause_lock' = pause_lock - 1
    /\ tasks' = SetTask(i, [tasks[i] EXCEPT !.pc = "flush"])
    /\ rx' = NoRx
    /\ done' = NoTask
    /\ UNCHANGED <<detector, ring, pause_in_progress, files, ingest,
                   archive>>

\* (mutant: the empty check is missing)
MutNothingToFlush(r) == FALSE

\* if not self._ring: return None
NothingToFlush(r) == r = <<>>

\* (mutant: the frames are joined latest first)
MutConcatReversed(r) == [j \in 1..Len(r) |-> r[Len(r) + 1 - j]]

\* pcm16 = np.concatenate(self._ring, axis=0)
Concatenated(r) == r

\* the history of concatenations, where it is kept
Archived(a, pcm) == IF a.on THEN [a EXCEPT !.turns = Append(@, pcm)] ELSE a

\* _write_wav_from_ring, first half: empty check and np.concatenate(self._ring)
FlushConcat(i) ==
    /\ tasks[i].pc = "flush"
    /\ tasks' = SetTask(i,
          IF NothingToFlush(ring)
            THEN [tasks[i] EXCEPT !.pc = "finally"]
            ELSE [tasks[i] EXCEPT !.pc = "clear",
                                  !.pcm16 = Concatenated(ring),
                                  !.flushed = TRUE])
    /\ archive' = IF NothingToFlush(ring)
                     THEN archive
                     ELSE Archived(archive, Concatenated(ring))
    /\ rx' = NoRx
    /\ done' = NoTask
    /\ UNCHANGED <<detector, ring, pause_in_progress, pause_lock, files, ingest>>

\* (mutant: the duration of the written audio is not looked at)
MutSkipsShort(dur) == FALSE

\* if dur_ms < self._min_speech_ms: return
SkipsShort(dur) == dur < min_speech_ms

\* _write_wav_from_ring, second half: self._ring.clear(), mkstemp, write the
\* WAV (wav_ok: the write succeeds); then the duration re-check of the caller
FlushWrite(i, wav_ok) ==
    /\ tasks[i].pc = "clear"
    /\ ring' = <<>>
    /\ files' = files \cup {tasks[i].turn}
    /\ tasks' = SetTask(i,
          IF ~wav_ok
            THEN [tasks[i] EXCEPT !.pc = "except", !.created = tasks[i].turn]
            ELSE [tasks[i] EXCEPT
                    !.created = tasks[i].turn,
                    !.path = tasks[i].turn,
                    !.pc = IF SkipsShort(DurMs(tasks[i].pcm16))
                             THEN "finally" ELSE "stt"])
    /\ rx' = NoRx
    /\ done' = NoTask
    /\ UNCHANGED <<detector, pause_in_progress, pause_lock, ingest,
                   archive>>

\* await asyncio.to_thread(self.transcriber.transcribe, path)
Transcribe(i, out) ==
    /\ tasks[i].pc = "stt"
    /\ tasks' = SetTask(i,
          IF out = "raise"
            THEN [Call(tasks[i], {"stt"}) EXCEPT !.pc = "except"]
            ELSE [Call(tasks[i], {"stt"}) EXCEPT !.pc = "send_tr", !.stt = out])
    /\ rx' = NoRx
    /\ done' = NoTask
    /\ UNCHANGED <<detector, ring, pause_in_progress, pause_lock, files, ingest,
                   archive>>

\* (mutant: the transcription is not sent on its own)
MutSendTranscription(i) ==
    /\ tasks[i].pc = "send_tr"
    /\ tasks' = SetTask(i,
          [tasks[i] EXCEPT !.pc = IF EmptyTranscript(tasks[i].stt)
                                    THEN "send_empty" ELSE "reply"])
    /\ rx' = NoRx
    /\ done' = NoTask
    /\ UNCHANGED <<detector, ring, pause_in_progress, pause_lock, files, ingest,
                   archive>>

\* await self.send_json({turn_id, transcription}); then the empty-transcript test
SendTranscription(i) ==
    /\ tasks[i].pc = "send_tr"
    /\ tasks' = SetTask(i,
          [Emit(tasks[i], TranscriptionEvent(tasks[i]))
             EXCEPT !.pc = IF EmptyTranscript(tasks[i].stt)
                             THEN "send_empty" ELSE "reply"])
    /\ rx' = NoRx
    /\ done' = NoTask
    /\ UNCHANGED <<detector, ring, pause_in_progress, pause_lock, files, ingest,
                   archive>>

\* empty transcript after STT: the minimal event, then return
SendEmpty(i) ==
    /\ tasks[i].pc = "send_empty"
    /\ tasks' = SetTask(i,
          [Emit(tasks[i], MinimalEvent(tasks[i])) EXCEPT !.pc = "finally"])
    /\ rx' = NoRx
    /\ done' = NoTask
    /\ UNCHANGED <<detector, ring, pause_in_progress, pause_lock, files, ingest,
                   archive>>

\* optional_result is assigned only by the unpacking of send_api_request()'s
\* result, the last statement of the agent try block that can raise
OptionalBound(agent) == agent # "fail"

\* heuristics, prompt, agent try block, fallback and short_reply, memory save.
\* agent: "fail" (something in the agent try block raised), "text" (the agent
\* answered), "none" (the agent answered nothing).  sr_ok: short_reply returns.
ReplyStage(i, agent, sr_ok) ==
    /\ tasks[i].pc = "reply"
    /\ tasks' = SetTask(i,
          IF ~sr_ok
            THEN [Call(tasks[i], {"heuristics", "agent", "short_reply"})
                    EXCEPT !.pc = "except", !.agent = agent,
                           !.optbound = OptionalBound(agent)]
            ELSE [Call(tasks[i],
                       {"heuristics", "agent", "short_reply", "memory"})
                    EXCEPT
                    !.pc = "tts",
                    !.agent = agent,
                    !.optbound = OptionalBound(agent),
                    !.reply = IF agent = "text" THEN "agent"
                                                ELSE "generic_fallback"])
    /\ rx' = NoRx
    /\ done' = NoTask
    /\ UNCHANGED <<detector, ring, pause_in_progress, pause_lock, files, ingest,
                   archive>>

\* TTS: "off" (ElevenLabs not configured: tts_elevenlabs is not called),
\* "raise", "none" (no audio comes back) or "audio"
Synthesize(i, tts) ==
    /\ tasks[i].pc = "tts"
    /\ tasks' = SetTask(i,
          [Call(tasks[i], IF tts = "off" THEN {} ELSE {"tts"})
             EXCEPT !.pc = "send_final", !.audio = (tts = "audio")])
    /\ rx' = NoRx
    /\ done' = NoTask
    /\ UNCHANGED <<detector, ring, pause_in_progress, pause_lock, files, ingest,
                   archive>>

\* building the reply payload reads optional_result; then send_json
SendFinal(i) ==
    /\ tasks[i].pc = "send_final"
    /\ tasks' = SetTask(i,
          IF ~tasks[i].optbound
            THEN [tasks[i] EXCEPT !.pc = "except"]
            ELSE [Emit(tasks[i], FinalEvent(tasks[i])) EXCEPT !.pc = "finally"])
    /\ rx' = NoRx
    /\ done' = NoTask
    /\ UNCHANGED <<detector, ring, pause_in_progress, pause_lock, files, ingest,
                   archive>>

\* (mutant: the handler swallows the failure without notifying the client)
MutExcept(i) ==
    /\ tasks[i].pc = "except"
    /\ tasks' = SetTask(i, [tasks[i] EXCEPT !.pc = "finally", !.raised = TRUE])
    /\ rx' = NoRx
    /\ done' = NoTask
    /\ UNCHANGED <<detector, ring, pause_in_progress, pause_lock, files, ingest,
                   archive>>

\* except Exception: send {"error": "processing_failed", "detail": ...}
Except(i) ==
    /\ tasks[i].pc = "except"
    /\ tasks' = SetTask(i,
          [Emit(tasks[i], ErrorEvent) EXCEPT !.pc = "finally", !.raised = TRUE])
    /\ rx' = NoRx
    /\ done' = NoTask
    /\ UNCHANGED <<detector, ring, pause_in_progress, pause_lock, files, ingest,
                   archive>>

\* the file the finally block removes
Removed(t) == IF t.path # 0 THEN {t.path} ELSE {}

\* (mutant: the finally block does not reset the in-flight flag)
MutFinally(i) ==
    /\ tasks[i].pc = "finally"
    /\ files' = files \ Removed(tasks[i])
    /\ pause_lock' = pause_lock + 1
    /\ done' = [tasks[i] EXCEPT !.pc = "done"]
    /\ tasks' = RemoveTask(i)
    /\ rx' = NoRx
    /\ UNCHANGED <<detector, ring, pause_in_progress, ingest,
                   archive>>

\* finally: os.remove(path) if path; self._pause_in_progress = False; then
\* the semaphore is released on leaving the async with block
Finally(i) ==
    /\ tasks[i].pc = "finally"
    /\ files' = files \ Removed(tasks[i])
    /\ pause_in_progress' = FALSE
    /\ pause_lock' = pause_lock + 1
    /\ done' = [tasks[i] EXCEPT !.pc = "done"]
    /\ tasks' = RemoveTask(i)
    /\ rx' = NoRx
    /\ UNCHANGED <<detector, ring, ingest,
                   archive>>

PauseStep == \E i \in 1..Len(tasks) :
    \/ Acquire(i)
    \/ FlushConcat(i)
    \/ \E wav_ok \in BOOLEAN : FlushWrite(i, wav_ok)
    \/ \E out \in {"raise", "empty", "text"} : Transcribe(i, out)
    \/ SendTranscription(i)
    \/ SendEmpty(i)
    \/ \E agent \in {"fail", "text", "none"}, sr_ok \in BOOLEAN :
          ReplyStage(i, agent, sr_ok)
    \/ \E tts \in {"off", "raise", "none", "audio"} : Synthesize(i, tts)
    \/ SendFinal(i)
    \/ Except(i)
    \/ Finally(i)

\* The handler on a transport that delivers well-formed frames, with the
\* debug log off (the default).
Next == RecvStep \/ PauseStep

Spec == Init /\ [][Next]_vars

\* The same handler with the audio concatenated for each turn and the
\* schedule errors on record.
ArchiveInit ==
    /\ Constructed
    /\ Defaults
    /\ max_utt_ms = short_utt_ms
    /\ Idle
    /\ archive = ArchiveOn

ArchiveSpec == ArchiveInit /\ [][Next]_vars

\* The ingest path alone, with any frames and any debug-log period: receive()
\* never waits for the event loop, so the runs in which no scheduled
\* _handle_pause has started yet are runs of the handler.
LogEvery == {0, 1, 2}

IngestInit ==
    /\ Constructed
    /\ recv_log_every \in LogEvery
    /\ denoiser = NoDenoiser
    /\ conf = [refine_with_llm |-> FALSE, send_json_cb |-> "none"]
    /\ max_utt_ms = short_utt_ms
    /\ NoStudy

IngestNext == RecvStep \/ RecvMalformed

IngestSpec == IngestInit /\ [][IngestNext]_vars

\* The detector alone with a long utterance cap (MAX_UTTERANCE_MS above the
\* 30 s the ring holds, in the source's terms).
DetectorInit ==
    /\ Constructed
    /\ Defaults
    /\ max_utt_ms = long_utt_ms
    /\ NoStudy

DetectorNext == RecvStep

DetectorSpec == DetectorInit /\ [][DetectorNext]_vars

\* receive() alone on a stream of any rate and frame length, with the
\* denoiser enabled (USE_SIMPLE_DENOISER=1) or not.
DenoiseInit ==
    /\ Constructed
    /\ recv_log_every = 0
    /\ denoiser \in {NoDenoiser, NewDenoiser}
    /\ conf = [refine_with_llm |-> FALSE, send_json_cb |-> "none"]
    /\ max_utt_ms = short_utt_ms
    /\ NoStudy

DenoiseNext == RecvAny

DenoiseSpec == DenoiseInit /\ [][DenoiseNext]_vars

\* ------------------------------------------------------------ send_json()
\* the handler and its history, without the side studies
whole == <<state, cooldown_left, speech_ms, silence_ms, utt_ms, ring,
           pause_in_progress, pause_lock, tasks, files, done, rx,
           loud_seen, nstart, scen, recv_log_every, recv_count,
           max_utt_ms, sr, denoiser, conf, archive>>

\* everything but the send_json() call under study
handler == <<state, cooldown_left, speech_ms, silence_ms, utt_ms, ring,
             pause_in_progress, pause_lock, tasks, files, done, rx,
             loud_seen, nstart, scen, recv_log_every, recv_count,
             max_utt_ms, sr, denoiser, conf, clone, once, calc, archive>>

\* the payloads the handler passes to send_json()
EventTypes == {"interrupt", "transcription", "no_reply", "final", "error"}

\* self._send_json_cb: None, a plain function, a coroutine function
CallbackKinds == {"none", "sync", "async"}

\* One call of send_json(payload) on a handler that has or lacks each of the
\* transports; json_str = json.dumps(payload) is done (the payloads are
\* dicts of strings, None and decoded JSON).
SendInit ==
    /\ Constructed
    /\ recv_log_every = 0
    /\ denoiser = NoDenoiser
    /\ conf \in [refine_with_llm : {FALSE}, send_json_cb : CallbackKinds]
    /\ max_utt_ms = short_utt_ms
    /\ sj \in [pc : {"m1"}, event : EventTypes, send_message : BOOLEAN,
                send_message_sync : BOOLEAN, cb : {conf.send_json_cb},
                tried : {<<>>}, via : {"none"}, got : {"none"}]
    /\ clone = NoClone
    /\ once = OnceIdle
    /\ calc = CalcIdle
    /\ archive = ArchiveOff

\* one attempt on transport name: ok says whether the awaited call returned
\* (it raised otherwise); success returns from send_json(), failure is caught
\* and execution falls through to next
Attempt(name, form, ok, next) ==
    [sj EXCEPT !.tried = Append(sj.tried, name),
               !.via = IF ok THEN name ELSE sj.via,
               !.got = IF ok THEN form ELSE sj.got,
               !.pc = IF ok THEN "returned" ELSE next]

\* (mutant: after a successful send_message the method does not return)
MutTrySendMessage(ok) ==
    /\ sj.pc = "m1"
    /\ sj' = IF sj.send_message
               THEN [Attempt("send_message", "json", ok, "m2") EXCEPT !.pc = "m2"]
               ELSE [sj EXCEPT !.pc = "m2"]
    /\ UNCHANGED handler

\* Method 1: if hasattr(self, "send_message"): await self.send_message(json_str)
TrySendMessage(ok) ==
    /\ sj.pc = "m1"
    /\ sj' = IF sj.send_message
               THEN Attempt("send_message", "json", ok, "m2")
               ELSE [sj EXCEPT !.pc = "m2"]
    /\ UNCHANGED handler

\* Method 2: if hasattr(self, "send_message_sync"): run it in a thread
TrySendMessageSync(ok) ==
    /\ sj.pc = "m2"
    /\ sj' = IF sj.send_message_sync
               THEN Attempt("send_message_sync", "json", ok, "m3")
               ELSE [sj EXCEPT !.pc = "m3"]
    /\ UNCHANGED handler

\* Method 3: if self._send_json_cb: await it, or run it in a thread; it gets
\* the payload, not the JSON string
TryCallback(ok) ==
    /\ sj.pc = "m3"
    /\ sj' = IF sj.cb # "none"
               THEN Attempt("callback", "dict", ok, "warn")
               ELSE [sj EXCEPT !.pc = "warn"]
    /\ UNCHANGED handler

\* the two warning prints, then the implicit return: the event is dropped
Warn ==
    /\ sj.pc = "warn"
    /\ sj' = [sj EXCEPT !.pc = "returned"]
    /\ UNCHANGED handler

SendNext ==
    \/ \E ok \in BOOLEAN : TrySendMessage(ok)
    \/ \E ok \in BOOLEAN : TrySendMessageSync(ok)
    \/ \E ok \in BOOLEAN : TryCallback(ok)
    \/ Warn

SendSpec == SendInit /\ [][SendNext]_vars

\* ------------------------------------------------------------------ copy()
\* (mutant: the copy is a shallow copy of the source, copy.copy(self))
MutCopied(refine, cb, dn_on) ==
    [made |-> TRUE, state |-> state, cooldown_left |-> cooldown_left,
     speech_ms |-> speech_ms, silence_ms |-> silence_ms, utt_ms |-> utt_ms,
     ring |-> ring, pause_in_progress |-> pause_in_progress, tasks |-> tasks,
     pause_lock |-> [of |-> "source", value |-> pause_lock],
     denoiser |-> [of |-> "source", st |-> denoiser],
     sr |-> sr, refine_with_llm |-> refine, send_json_cb |-> cb]

\* MeetingStreamHandler(refine_with_llm=..., send_json_cb=...): what __init__
\* sets on the new object; the semaphore and the denoiser are objects made
\* by this construction (dn_on: USE_SIMPLE_DENOISER, read again from the same
\* environment)
Copied(refine, cb, dn_on) ==
    [made |-> TRUE, state |-> "IDLE", cooldown_left |-> 0, speech_ms |-> 0,
     silence_ms |-> 0, utt_ms |-> 0, ring |-> <<>>,
     pause_in_progress |-> FALSE, tasks |-> <<>>,
     pause_lock |-> [of |-> "copy", value |-> 1],
     denoiser |-> [of |-> "copy",
                   st |-> IF dn_on THEN NewDenoiser ELSE NoDenoiser],
     sr |-> default_sr, refine_with_llm |-> refine, send_json_cb |-> cb]

\* copy(), called by the transport for a new connection; it reads two
\* attributes of the source and writes none
Copy ==
    /\ ~clone.made
    /\ clone' = Copied(conf.refine_with_llm, conf.send_json_cb, denoiser.on)
    /\ rx' = NoRx
    /\ done' = NoTask
    /\ UNCHANGED <<detector, ring, pause_in_progress, pause_lock, tasks,
                   files, loud_seen, nstart, scen, recv_log_every, recv_count,
                   max_utt_ms, sr, denoiser, conf, sj, once, calc, archive>>

\* A handler built with any arguments, with the denoiser on or off, receives
\* frames; at some point the transport copies it.
CopyInit ==
    /\ Constructed
    /\ recv_log_every = 0
    /\ denoiser \in {NoDenoiser, NewDenoiser}
    /\ conf \in [refine_with_llm : BOOLEAN, send_json_cb : CallbackKinds]
    /\ max_utt_ms = short_utt_ms
    /\ NoStudy

CopyNext == RecvStep \/ Copy

CopySpec == CopyInit /\ [][CopyNext]_vars

\* ------------------------------------------------- cached collaborators
\* _transcriber_singleton (get_transcriber), _oai_client (_oai) of the STT
\* service, _client (oai) of the LLM service: module globals, None at import
Caches == {"transcriber", "stt_client", "llm_client"}

\* the threads that call the getter: worker threads running the turns of
\* different streams (asyncio.to_thread), request handlers
Callers == {1, 2}

\* a caller outside the getter
OutsideGetter == [pc |-> "out", calls |-> 0, new |-> 0, got |-> 0]

SetCaller(t, c) == [once EXCEPT !.thr[t] = c]

\* the getter is entered
OnceCall(t) ==
    /\ once.cache # "none"
    /\ once.thr[t].pc = "out"
    /\ once.thr[t].calls < MaxCalls
    /\ once' = SetCaller(t, [once.thr[t] EXCEPT
                                !.pc = "test", !.calls = once.thr[t].calls + 1])
    /\ UNCHANGED <<whole, sj, clone, calc>>

\* if <global> is None: the global is read
OnceTest(t) ==
    /\ once.cache # "none"
    /\ once.thr[t].pc = "test"
    /\ once' = SetCaller(t, [once.thr[t] EXCEPT
                                !.pc = IF once.inst = 0 THEN "construct"
                                                        ELSE "return"])
    /\ UNCHANGED <<whole, sj, clone, calc>>

\* the configuration check raises (no API key, backend not installed), or the
\* constructor runs: OpenAI(...), FasterWhisperTranscriber(), ...
OnceConstruct(t) ==
    /\ once.cache # "none"
    /\ once.thr[t].pc = "construct"
    /\ once' = IF once.broken
                 THEN SetCaller(t, [once.thr[t] EXCEPT !.pc = "out"])
                 ELSE [SetCaller(t, [once.thr[t] EXCEPT
                                        !.pc = "assign",
                                        !.new = once.built + 1])
                         EXCEPT !.built = once.built + 1]
    /\ UNCHANGED <<whole, sj, clone, calc>>

\* <global> = the instance just constructed
OnceAssign(t) ==
    /\ once.cache # "none"
    /\ once.thr[t].pc = "assign"
    /\ once' = [SetCaller(t, [once.thr[t] EXCEPT !.pc = "return"])
                  EXCEPT !.inst = once.thr[t].new]
    /\ UNCHANGED <<whole, sj, clone, calc>>

\* return <global>: the global is read again
OnceReturn(t) ==
    /\ once.cache # "none"
    /\ once.thr[t].pc = "return"
    /\ once' = SetCaller(t, [once.thr[t] EXCEPT
                                !.pc = "out", !.got = once.inst])
    /\ UNCHANGED <<whole, sj, clone, calc>>

\* One of the caches, empty, in a process whose configuration lets the
\* constructor run or not, and the callers about to ask for it.
OnceInit ==
    /\ Constructed
    /\ Defaults
    /\ max_utt_ms = short_utt_ms
    /\ sj = SjIdle
    /\ clone = NoClone
    /\ calc = CalcIdle
    /\ once \in [cache : Caches, broken : BOOLEAN, inst : {0}, built : {0},
                  thr : {[t \in Callers |-> OutsideGetter]}]
    /\ archive = ArchiveOff

OnceNext == \E t \in Callers :
    \/ OnceCall(t)
    \/ OnceTest(t)
    \/ OnceConstruct(t)
    \/ OnceAssign(t)
    \/ OnceReturn(t)

OnceSpec == OnceInit /\ [][OnceNext]_vars

\* ------------------------------------------------------------ dyn_cutoff
\* utterance durations (whole frames) and values of VAD_MIN_SIL_MS /
\* VAD_MAX_SIL_MS the computation is followed on
CalcUtts == {k * frame_ms : k \in 0..20}

CalcBounds == {0, 4, 20, 44, 60, 88}

\* the dyn_cutoff expression of receive(), for the utterance duration and the
\* bounds of the computation under study, and for an utterance one frame
\* longer
Compute ==
    /\ calc.pc = "in"
    /\ calc' = [calc EXCEPT
                  !.pc = "out",
                  !.cutoff = Clamp(Scaled(calc.utt), calc.lo, calc.hi),
                  !.next = Clamp(Scaled(calc.utt + frame_ms), calc.lo, calc.hi)]
    /\ UNCHANGED <<whole, sj, clone, once>>

\* any utterance duration, any pair of bounds
CutoffInit ==
    /\ Constructed
    /\ Defaults
    /\ max_utt_ms = short_utt_ms
    /\ sj = SjIdle
    /\ clone = NoClone
    /\ once = OnceIdle
    /\ calc \in [pc : {"in"}, utt : CalcUtts, lo : CalcBounds, hi : CalcBounds,
                  cutoff : {0}, next : {0}]
    /\ archive = ArchiveOff

CutoffNext == Compute

CutoffSpec == CutoffInit /\ [][CutoffNext]_vars

\* The event loop keeps running the coroutines scheduled on it, and every
\* collaborator call returns or raises: a _handle_pause that can take a step
\* eventually takes one.
FairSpec == Spec /\ WF_vars(PauseStep)

\* ------------------------------------------------------------- properties
Count(ev, type) == Cardinality({k \in 1..Len(ev) : ev[k].type = type})

\* the _handle_pause coroutines that are inside the async with block
InBody == {i \in 1..Len(tasks) : tasks[i].pc # "sched"}

\* C1: as long as every frame received so far had RMS below the start
\* threshold, the state is IDLE, the segment buffer is empty, the latest
\* receive() scheduled no Interrupt and no turn has been dispatched.
C1_QuietStaysIdle ==
    ~loud_seen =>
        /\ state = "IDLE"
        /\ ring = <<>>
        /\ ~rx.interrupt
        /\ ~rx.dispatched
        /\ tasks = <<>>
        /\ ~pause_in_progress
        /\ done = NoTask

\* a frame between the two thresholds has been received and none was louder
C1_Witness == ~loud_seen /\ rx.rms = 500

\* C2: at most one _handle_pause body executes at a time for the stream, every
\* other scheduled turn is still waiting at the gate, and a body only executes
\* while the stream's gate is held (semaphore taken, _pause_in_progress set).
C2_NoOverlap ==
    /\ Cardinality(InBody) <= 1
    /\ InBody # {} => pause_lock = 0 /\ pause_in_progress

\* a second qualifying cut happened while the first turn's body was executing
C2_Witness == InBody # {} /\ rx.cut /\ ~rx.rejected /\ rx.in_flight

\* C3 (as claimed): a cut with sufficient speech made while a previous turn is
\* being processed (it has flushed its own audio and has not terminated)
\* leaves a turn queued for the utterance just cut.
C3_SecondCutQueued ==
    (/\ rx.cut /\ rx.speech >= min_speech_ms
     /\ \E j \in InBody : tasks[j].flushed) =>
        \E i \in 1..Len(tasks) : tasks[i].pc = "sched" /\ tasks[i].cut_ring = ring

\* C4 (as claimed): the audio a turn flushes is exactly the segment buffer at
\* the cut that scheduled the turn.
C4_SnapshotAtCut ==
    \A i \in 1..Len(tasks) :
        tasks[i].pc \notin {"sched", "flush"} =>
            tasks[i].flushed /\ tasks[i].pcm16 = tasks[i].cut_ring

\* C5 (as claimed): RECORDING is left only for COOLDOWN and only in a receive()
\* where trailing silence >= dynamic cutoff and >= end_guard_frames * frame_ms.
C5_LeaveOnlyOnSilence ==
    [][(state = "RECORDING" /\ state' # "RECORDING") =>
          /\ state' = "COOLDOWN"
          /\ rx'.silence >= rx'.dyn_cutoff
          /\ rx'.silence >= end_guard_frames * frame_ms]_vars

\* C5 (amended): RECORDING is left only for COOLDOWN, IDLE is entered only from
\* COOLDOWN, and RECORDING is left only in a receive() where either trailing
\* silence >= dynamic cutoff and >= end_guard_frames * frame_ms both hold, or
\* the utterance duration has reached max_utt_ms.
C5_LeaveOnSilenceOrCap ==
    [][/\ (state = "RECORDING" /\ state' # "RECORDING") =>
              /\ state' = "COOLDOWN"
              /\ \/ /\ rx'.silence >= rx'.dyn_cutoff
                    /\ rx'.silence >= end_guard_frames * frame_ms
                 \/ rx'.utt >= max_utt_ms
       /\ (state # "IDLE" /\ state' = "IDLE") => state = "COOLDOWN"]_vars

\* RECORDING has just been left by a cut for silence below the length cap
C5_Witness ==
    /\ state = "COOLDOWN"
    /\ rx.cut /\ rx.cut_silence /\ ~rx.cut_length
    /\ rx.utt < max_utt_ms

\* C6: a receive() that cuts with accumulated speech below min_speech_ms
\* schedules no turn and emits no turn event, clears the segment buffer, resets
\* the three counters to 0 and enters COOLDOWN with the full cooldown.
C6_ShortSpeechRejected ==
    [][(rx'.cut /\ rx'.speech < min_speech_ms) =>
          /\ tasks' = tasks
          /\ pause_in_progress' = pause_in_progress
          /\ ~rx'.dispatched
          /\ ring' = <<>>
          /\ speech_ms' = 0 /\ silence_ms' = 0 /\ utt_ms' = 0
          /\ state' = "COOLDOWN"
          /\ cooldown_left' = cooldown_ms]_vars

\* an utterance with one frame of speech has just been cut and rejected
C6_Witness ==
    /\ rx.cut /\ rx.rejected
    /\ rx.speech > 0 /\ rx.speech < min_speech_ms
    /\ state = "COOLDOWN"

\* C7 (as claimed): a receive() in which the utterance reaches max_utt_ms with
\* accumulated speech >= min_speech_ms dispatches a turn (scheduling itself
\* not failing), whatever the frame's energy.
C7_CapCutDispatched ==
    (rx.cut_length /\ rx.speech >= min_speech_ms /\ ~rx.sched_error) =>
        rx.dispatched

\* C8 (as claimed): a turn whose agent stage failed after a non-empty
\* transcript, and whose fallback reply was generated, ends with a Final reply
\* event and without an ErrorNotice.
C8_AgentFailureFallsBack ==
    (done.pc = "done" /\ done.stt = "text" /\ done.agent = "fail"
       /\ done.reply = "generic_fallback") =>
        /\ Count(done.ev, "final") = 1
        /\ Count(done.ev, "error") = 0

\* C9: a turn in which a failure reached the outer handler terminates having
\* emitted exactly one ErrorNotice and no Final reply, and no step of
\* _handle_pause changes the detector's state or counters.
C9_FailureContained ==
    [][/\ (done'.pc = "done" /\ done'.raised) =>
              /\ Count(done'.ev, "error") = 1
              /\ Count(done'.ev, "final") = 0
       /\ PauseStep => UNCHANGED detector]_vars

\* a turn whose transcriber raised has terminated
C9_Witness ==
    /\ done.pc = "done" /\ done.raised
    /\ done.path # 0 /\ done.stt = "none"

\* C10 (as claimed): when a turn has terminated, no temporary WAV file created
\* for it remains.
C10_NoFileLeft ==
    done.pc = "done" => done.created \notin files

\* C11: whichever way a scheduled _handle_pause terminates (final reply,
\* empty segment buffer, too-short segment, empty transcript, exception), it
\* leaves _pause_in_progress False and the semaphore free; a qualifying cut
\* that is not dispatched (scheduling itself not failing) has a turn still
\* alive to blame; and, the event loop running its coroutines and the
\* collaborators returning or raising, a held gate is eventually released.
C11_GateReleased ==
    /\ [](done.pc = "done" => ~pause_in_progress /\ pause_lock = 1)
    /\ []((rx.cut /\ ~rx.rejected /\ ~rx.sched_error /\ ~rx.dispatched)
            => tasks # <<>>)
    /\ (pause_in_progress ~> ~pause_in_progress)

\* a turn whose WAV could not be written has ended in the exception handler,
\* and the cut of the next utterance has been dispatched
C11_Witness ==
    /\ rx.dispatched /\ nstart = 2
    /\ tasks # <<>> /\ tasks[1].turn = 2
    /\ 1 \in files

RingRef == [k \in 1..(utt_ms \div frame_ms) |-> Frame(nstart, k)]

\* C13 (as claimed): the segment buffer after a receive() does not depend on
\* how far the previous turn's asynchronous work has got: after a receive()
\* that buffered a frame it holds every frame of the utterance so far, as it
\* does when that work has not started.
C13_BufferIndependent ==
    rx.buffered => ring = RingRef

\* C14: a receive() of a frame in COOLDOWN decrements the remaining cooldown
\* by the frame duration.  While the result is positive the state stays
\* COOLDOWN and the frame, whatever its energy, starts no utterance, emits no
\* Interrupt, is not buffered and changes no counter.  Once the result is <= 0
\* the state becomes IDLE and the same frame is handled as an IDLE frame.
C14_Cooldown ==
    [][(state = "COOLDOWN" /\ rx'.frame = "pcm" /\ rx'.outcome = "returned") =>
          /\ cooldown_left' = cooldown_left - frame_ms
          /\ cooldown_left' > 0 =>
                /\ state' = "COOLDOWN"
                /\ ~rx'.started /\ ~rx'.interrupt /\ ~rx'.buffered
                /\ UNCHANGED <<ring, speech_ms, silence_ms, utt_ms, tasks,
                               pause_in_progress, nstart>>
          /\ cooldown_left' <= 0 =>
                /\ rx'.rms < rms_start => state' = "IDLE" /\ ~rx'.buffered
                /\ rx'.rms >= rms_start =>
                      rx'.started /\ state' = "RECORDING"]_vars

\* a speech-level frame has just been received with cooldown remaining
C14_Witness ==
    /\ state = "COOLDOWN" /\ rx.outcome = "returned"
    /\ rx.rms = 1000 /\ ~rx.buffered
    /\ cooldown_left > 0 /\ cooldown_left < cooldown_ms

\* C15 (as claimed): in Scenario B (silence, speech at RMS 1000, then RMS 0
\* until the cut for silence) the turn dispatched at the cut carries about as
\* much audio as there was speech (within one frame).
C15_ScenarioBSpeechOnly ==
    (scen = "cut" /\ rx.dispatched) =>
        /\ DurMs(tasks[1].cut_ring) <= rx.speech + frame_ms
        /\ DurMs(tasks[1].cut_ring) >= rx.speech - frame_ms

\* C15 (amended): in Scenario B no turn exists before the cut; the cut comes
\* at the first frame where the trailing silence satisfies the dynamic cutoff
\* and the end guard; with speech >= min_speech_ms (scheduling not failing)
\* exactly one turn is dispatched, carrying the whole utterance, speech plus
\* trailing silence; the full cooldown follows, during which no frame,
\* whatever its energy, starts RECORDING or dispatches a turn.
C15_ScenarioB ==
    /\ scen \in {"pre", "tail"} =>
          tasks = <<>> /\ ~pause_in_progress /\ done = NoTask
    /\ (scen = "cut" /\ rx.cut) =>
          /\ rx.cut_silence
          /\ rx.silence >= rx.dyn_cutoff
          /\ rx.silence >= end_guard_frames * frame_ms
          /\ rx.silence - frame_ms < Max(rx.dyn_cutoff,
                                         end_guard_frames * frame_ms)
          /\ rx.utt = rx.speech + rx.silence
          /\ state = "COOLDOWN" /\ cooldown_left = cooldown_ms
          /\ (rx.speech >= min_speech_ms /\ ~rx.sched_error) =>
                /\ rx.dispatched /\ Len(tasks) = 1
                /\ tasks[1].cut_ring = ring
                /\ DurMs(ring) = rx.speech + rx.silence
    /\ scen = "cut" =>
          /\ nstart = 1 /\ Len(tasks) <= 1
          /\ \A i \in 1..Len(tasks) :
                /\ tasks[i].turn = 1
                /\ tasks[i].flushed => tasks[i].pcm16 = tasks[i].cut_ring
          /\ ~rx.cut => state = "COOLDOWN" /\ ~rx.started /\ ~rx.dispatched

\* Scenario B has reached its cut: two frames of speech and two of silence,
\* and the turn is dispatched
C15_Witness ==
    /\ scen = "cut" /\ rx.dispatched
    /\ rx.speech = 2 * frame_ms /\ rx.utt = 4 * frame_ms

\* C16: in Scenario D (silence at most, then speech at RMS 1000 without a
\* pause) the first utterance is cut by no frame before the one where its
\* duration reaches max_utt_ms; that frame cuts for length and (scheduling
\* not failing) dispatches exactly one turn, carrying max_utt_ms of audio; no
\* other turn appears during the cooldown; and the first frame after the
\* cooldown starts a fresh utterance: RECORDING, counters reset and counting
\* that frame only, buffer holding that frame only.
C16_ScenarioD ==
    /\ (scen = "speech" /\ nstart = 1 /\ state = "RECORDING") =>
          /\ tasks = <<>> /\ ~pause_in_progress /\ ~rx.cut
          /\ utt_ms < max_utt_ms /\ speech_ms = utt_ms /\ silence_ms = 0
    /\ (scen = "speech" /\ nstart = 1 /\ rx.cut) =>
          /\ rx.cut_length /\ ~rx.cut_silence /\ ~rx.rejected
          /\ rx.utt >= max_utt_ms /\ rx.utt - frame_ms < max_utt_ms
          /\ rx.speech = rx.utt
          /\ state = "COOLDOWN" /\ cooldown_left = cooldown_ms
          /\ ~rx.sched_error =>
                /\ rx.dispatched /\ Len(tasks) = 1
                /\ tasks[1].cut_ring = ring
                /\ DurMs(ring) = rx.utt
    /\ (scen = "speech" /\ nstart = 1 /\ state = "COOLDOWN") =>
          /\ Len(tasks) <= 1
          /\ \A i \in 1..Len(tasks) : tasks[i].turn = 1
          /\ ~rx.cut => ~rx.dispatched /\ ~rx.buffered
    /\ (scen = "speech" /\ nstart = 2 /\ rx.started) =>
          /\ state = "RECORDING"
          /\ utt_ms = frame_ms /\ speech_ms = frame_ms /\ silence_ms = 0
          /\ ring = <<Frame(2, 1)>>

\* Scenario D has passed its cap cut and cooldown: the speech that goes on has
\* just started the second utterance
C16_Witness ==
    /\ scen = "speech" /\ nstart = 2 /\ rx.started
    /\ rx.rms = 1000

\* what _handle_pause calls once the transcript is known to be usable
AfterTranscript == {"heuristics", "agent", "short_reply", "memory", "tts"}

\* the turns alive and the one that has just terminated
Turns == {tasks[i] : i \in 1..Len(tasks)} \cup {done}

\* C17: a turn that had a non-empty transcript and terminated without a
\* failure reaching the outer handler emitted exactly two events, the
\* transcription and then the final reply, both with the turn's id; and any
\* turn that has invoked action extraction, the agent, reply generation, the
\* memory save or synthesis had emitted the transcription first.
C17_TwoEvents ==
    /\ (done.pc = "done" /\ done.stt = "text" /\ ~done.raised) =>
          /\ Len(done.ev) = 2
          /\ done.ev[1].type = "transcription" /\ done.ev[2].type = "final"
          /\ done.ev[1].turn_id = done.turn /\ done.ev[2].turn_id = done.turn
    /\ \A t \in Turns :
          t.calls \cap AfterTranscript # {} =>
              /\ t.ev # <<>> /\ t.ev[1].type = "transcription"
              /\ Count(t.ev, "transcription") = 1

\* a turn with a transcript, an agent answer and synthesized audio has ended
C17_Witness ==
    /\ done.pc = "done" /\ done.stt = "text" /\ ~done.raised
    /\ done.reply = "agent" /\ done.audio

\* C18: a turn whose transcript is empty invokes nothing after the
\* transcriber (no action extraction, agent, reply generation, memory save,
\* synthesis), emits no final reply, and terminates having emitted, after the
\* transcription, the minimal event: same turn id, empty prompt, no action
\* items, null reply preview and audio.
C18_EmptyShortCircuits ==
    /\ \A t \in Turns :
          t.stt = "empty" =>
              /\ t.calls = {"stt"}
              /\ Count(t.ev, "final") = 0
              /\ t.reply = "none" /\ ~t.audio /\ ~t.raised
    /\ (done.pc = "done" /\ done.stt = "empty") =>
          /\ Len(done.ev) = 2
          /\ done.ev[1].type = "transcription"
          /\ done.ev[2].type = "no_reply"
          /\ done.ev[2].turn_id = done.ev[1].turn_id
          /\ done.ev[2].normalized_prompt = ""
          /\ done.ev[2].action_items = <<>>
          /\ done.ev[2].reply_preview = "none"
          /\ ~done.ev[2].reply_audio

\* a turn with an empty transcript has ended
C18_Witness == done.pc = "done" /\ done.stt = "empty" /\ Len(done.ev) = 2

\* the transports in the order send_json() tries them
TransportRank(name) ==
    CASE name = "send_message" -> 1
      [] name = "send_message_sync" -> 2
      [] name = "callback" -> 3

\* the transports this handler has, in that order
Available ==
    (IF sj.send_message THEN <<"send_message">> ELSE <<>>)
    \o (IF sj.send_message_sync THEN <<"send_message_sync">> ELSE <<>>)
    \o (IF sj.cb # "none" THEN <<"callback">> ELSE <<>>)

\* C19: send_json() attempts its transports in the order send_message,
\* send_message_sync, callback, each at most once and only if the handler has
\* it; an attempt that succeeds is the last one and send_json() has returned;
\* a send_json() that has returned without delivering has tried every
\* transport the handler has once; the call is never stuck and never ends
\* otherwise than by returning.
C19_BestEffortOrder ==
    /\ \A a, b \in 1..Len(sj.tried) :
          a < b => TransportRank(sj.tried[a]) < TransportRank(sj.tried[b])
    /\ \A a \in 1..Len(sj.tried) :
          \E b \in 1..Len(Available) : Available[b] = sj.tried[a]
    /\ sj.via # "none" =>
          /\ sj.pc = "returned"
          /\ sj.tried[Len(sj.tried)] = sj.via
          /\ sj.got = IF sj.via = "callback" THEN "dict" ELSE "json"
    /\ (sj.pc = "returned" /\ sj.via = "none") =>
          sj.tried = Available /\ sj.got = "none"
    /\ sj.pc \in {"m1", "m2", "m3", "warn", "returned"}
    /\ sj.pc # "returned" => ENABLED SendNext

\* all three transports were there and all three failed: the event is
\* dropped and send_json() has returned
C19_Witness ==
    /\ sj.pc = "returned" /\ sj.via = "none"
    /\ sj.tried = <<"send_message", "send_message_sync", "callback">>

\* C20 (as claimed): whatever the frame (well-formed, payload None, not a
\* pair, samples that cannot be converted) and whatever the debug-log period,
\* receive() returns the frame and does not raise.
C20_ReceiveNeverRaises ==
    rx.frame # "none" => rx.outcome = "returned"

\* C21 (as claimed): with the denoiser enabled, a frame whose length is not
\* the frame length the denoiser was built for is not handed to the denoiser:
\* the detector steps on it (its energy is evaluated), it is buffered as
\* received, and the denoiser's state is the same after the call, whatever
\* rate the stream announces.
C21_MismatchBypasses ==
    [][(denoiser.on /\ rx'.frame = "pcm" /\ rx'.n # denoiser.N) =>
          /\ rx'.vad
          /\ rx'.denoise = "skipped"
          /\ denoiser' = denoiser
          /\ rx'.buffered => ~ring'[Len(ring')].dn]_vars

\* the frames of the latest receive()'s utterance, first to latest
Arrived == rx.utt \div frame_ms

\* C22: the segment buffer never holds more than ring_max_samples samples;
\* after a receive() that buffered its frame (and did not reset the buffer)
\* it holds the latest frames of the utterance, in arrival order and ending
\* with the frame just received: what is missing is the oldest frames, as
\* many as had to go for the total to fit.
C22_RingBounded ==
    /\ Samples(ring) <= ring_max_samples
    /\ (rx.buffered /\ ~rx.rejected) =>
          LET kept == Min(Arrived, ring_max_samples \div frame_samples)
          IN  ring = [i \in 1..kept |-> Frame(nstart, Arrived - kept + i)]

\* an append overflowed the cap and the oldest frame was evicted
C22_Witness ==
    /\ rx.buffered
    /\ Arrived > ring_max_samples \div frame_samples
    /\ Samples(ring) = ring_max_samples
    /\ ring[1].k = Arrived - Len(ring) + 1
    /\ ring[1].k > 1

\* C23 (as claimed): the flush takes the segment buffer in one piece: at the
\* step in which _write_wav_from_ring clears the buffer, every frame that is
\* in it is part of the PCM the flush has concatenated, so no frame appended
\* by receive() is lost between the concatenation and the clear.
C23_FlushAtomic ==
    [][\A i \in 1..Len(tasks) :
          (tasks[i].pc = "clear" /\ tasks'[i].pc # "clear") =>
              \A k \in 1..Len(ring) :
                  \E m \in 1..Len(tasks[i].pcm16) :
                      tasks[i].pcm16[m] = ring[k]]_vars

\* C24: the handler copy() returns is freshly initialized whatever the state
\* of its source: IDLE, zero counters and cooldown, empty segment buffer, no
\* turn in flight, a gate and a denoiser of its own in their initial state;
\* refine_with_llm and the outbound callback are those of the source; and
\* copy() changes nothing in the source.
C24_CopyFresh ==
    [][(~clone.made /\ clone'.made) =>
          /\ clone'.state = "IDLE"
          /\ clone'.speech_ms = 0
          /\ clone'.silence_ms = 0
          /\ clone'.utt_ms = 0
          /\ clone'.cooldown_left = 0
          /\ clone'.ring = <<>>
          /\ ~clone'.pause_in_progress
          /\ clone'.tasks = <<>>
          /\ clone'.pause_lock = [of |-> "copy", value |-> 1]
          /\ clone'.denoiser.of = "copy"
          /\ ~clone'.denoiser.st.hp
          /\ ~clone'.denoiser.st.floor
          /\ clone'.refine_with_llm = conf.refine_with_llm
          /\ clone'.send_json_cb = conf.send_json_cb
          /\ UNCHANGED <<detector, ring, pause_in_progress, pause_lock, tasks,
                         files, recv_count, sr, denoiser, conf>>]_vars

\* copy() has just returned on a source that is in COOLDOWN after a cut, with
\* a turn in flight, audio in its buffer and an adapted denoiser
C24_Witness ==
    /\ clone.made
    /\ rx = NoRx
    /\ state = "COOLDOWN"
    /\ cooldown_left > 0
    /\ speech_ms > 0
    /\ ring # <<>>
    /\ pause_in_progress
    /\ tasks # <<>>
    /\ denoiser.floor
    /\ conf.refine_with_llm
    /\ conf.send_json_cb = "async"

\* C25 (as claimed): whatever the interleaving of the callers, the
\* constructor of a cached collaborator runs at most once and all the callers
\* that have been handed an instance have been handed the same one.
C25_ConstructedOnce ==
    /\ once.built <= 1
    /\ \A t, u \in DOMAIN once.thr :
          (once.thr[t].got # 0 /\ once.thr[u].got # 0) =>
              once.thr[t].got = once.thr[u].got

\* C26: RECORDING is entered only by a receive() of a frame with energy at or
\* above the start threshold; that receive() resets the counters and clears
\* the segment buffer before buffering the frame, so that afterwards the
\* buffer holds exactly that frame, utterance and speech duration are one
\* frame and trailing silence is 0; it schedules one Interrupt, or fails to
\* and goes on; no other receive() schedules an Interrupt.
C26_StartOfSpeech ==
    [][/\ (state # "RECORDING" /\ state' = "RECORDING") =>
             /\ rx'.started
             /\ rx'.rms >= rms_start
             /\ nstart' = nstart + 1
             /\ ring' = <<Frame(nstart', 1)>>
             /\ utt_ms' = frame_ms
             /\ speech_ms' = frame_ms
             /\ silence_ms' = 0
       /\ rx'.started => (state # "RECORDING" /\ state' = "RECORDING")
       /\ rx'.interrupt => rx'.started]_vars

\* the second utterance has just started while the frames of the first were
\* still in the buffer (its turn has not flushed yet), and the Interrupt could
\* not be scheduled
C26_Witness ==
    /\ rx.started
    /\ ~rx.interrupt
    /\ state = "RECORDING"
    /\ nstart = 2
    /\ ring = <<Frame(2, 1)>>
    /\ tasks # <<>>
    /\ tasks[1].pc = "sched"

\* the integer part of 0.22 x utt
IntPart22(utt) ==
    CHOOSE q \in 0..utt : 100 * q <= 22 * utt /\ 22 * utt < 100 * (q + 1)

\* 0.22 x utt, integer part, brought into [lo, hi]
Cutoff22(utt, lo, hi) ==
    LET q == IntPart22(utt)
    IN  IF q < lo THEN lo ELSE IF q > hi THEN hi ELSE q

\* C27: a receive() that buffers a frame below the length cap cuts exactly
\* when trailing silence has reached both the dynamic cutoff and
\* end_guard_frames frames, and RECORDING continues otherwise, so the cut
\* comes with the first frame at which both hold; such a cut never comes
\* with fewer than end_guard_frames quiet frames in a row, with trailing
\* silence below min_silence_ms, or on a single quiet frame.
C27_CutForSilence ==
    (rx.buffered /\ rx.utt < max_utt_ms) =>
        LET due == /\ rx.silence >= Cutoff22(rx.utt, min_silence_ms,
                                              max_silence_ms)
                   /\ rx.silence >= end_guard_frames * frame_ms
        IN  /\ rx.cut <=> due
            /\ ~rx.cut => state = "RECORDING"
            /\ rx.cut =>
                  /\ rx.cut_silence
                  /\ state = "COOLDOWN"
                  /\ rx.silence \div frame_ms >= end_guard_frames
                  /\ rx.silence >= min_silence_ms
                  /\ rx.silence > frame_ms

\* an utterance long enough for the dynamic cutoff to exceed the end guard
\* has just been cut, one quiet frame after the end guard was satisfied
C27_Witness ==
    /\ rx.cut
    /\ rx.utt < max_utt_ms
    /\ rx.dyn_cutoff > end_guard_frames * frame_ms
    /\ rx.silence = (end_guard_frames + 1) * frame_ms

\* C28: for every utterance duration and every pair of bounds with
\* min_silence_ms <= max_silence_ms, the dynamic silence cutoff lies between
\* the bounds, is the integer part of 0.22 x utterance duration whenever that
\* lies between them (and the nearer bound otherwise), and does not decrease
\* when the utterance gets longer.
C28_CutoffClamped ==
    (calc.pc = "out" /\ calc.lo <= calc.hi) =>
        /\ calc.lo <= calc.cutoff
        /\ calc.cutoff <= calc.hi
        /\ (calc.lo <= IntPart22(calc.utt) /\ IntPart22(calc.utt) <= calc.hi)
              => calc.cutoff = IntPart22(calc.utt)
        /\ calc.cutoff = Cutoff22(calc.utt, calc.lo, calc.hi)
        /\ calc.cutoff <= calc.next

\* a cutoff strictly between the bounds, obtained by truncation, that grows
\* with the next frame
C28_Witness ==
    /\ calc.pc = "out"
    /\ calc.lo < calc.cutoff
    /\ calc.cutoff < calc.hi
    /\ 100 * calc.cutoff < 22 * calc.utt
    /\ calc.cutoff < calc.next

\* C29: a frame with energy between the stop and the start threshold does
\* not take the detector from IDLE or COOLDOWN to RECORDING; received while
\* RECORDING it is speech: trailing silence goes to 0 and speech duration
\* grows by one frame.  A RECORDING frame below the stop threshold adds one
\* frame to trailing silence and leaves speech duration alone.  Every
\* RECORDING frame is appended to the buffer and adds one frame to the
\* utterance duration.
C29_Hysteresis ==
    [][(rx'.frame = "pcm" /\ rx'.vad) =>
          LET mid   == rms_stop <= rx'.rms /\ rx'.rms < rms_start
              quiet == rx'.rms < rms_stop
              rec   == state = "RECORDING"
          IN  /\ (mid /\ ~rec) =>
                    /\ state' # "RECORDING"
                    /\ ~rx'.started
                    /\ ~rx'.buffered
              /\ rec => rx'.buffered
              /\ (rec /\ mid) =>
                    /\ rx'.voiced
                    /\ rx'.silence = 0
                    /\ rx'.speech = speech_ms + frame_ms
              /\ (rec /\ quiet) =>
                    /\ ~rx'.voiced
                    /\ rx'.silence = silence_ms + frame_ms
                    /\ rx'.speech = speech_ms
              /\ rec =>
                    /\ rx'.utt = utt_ms + frame_ms
                    /\ ~rx'.rejected =>
                          /\ ring' # <<>>
                          /\ ring'[Len(ring')] =
                                 Frame(nstart, rx'.utt \div frame_ms)
                          /\ utt_ms' = rx'.utt
                          /\ speech_ms' = rx'.speech
                          /\ silence_ms' = rx'.silence]_vars

\* a frame between the thresholds has just been counted as speech in
\* RECORDING, ending a run of quiet frames
C29_Witness ==
    /\ state = "RECORDING"
    /\ rx.rms = 500
    /\ ~rx.started
    /\ rx.voiced
    /\ rx.silence = 0
    /\ rx.speech < rx.utt

\* C30 (as claimed): a turn whose synthesis stage yielded no audio (it
\* raised, returned nothing, or is not configured) ends with exactly one
\* Final reply event, carrying the generated reply and no audio, and with no
\* ErrorNotice.
C30_SynthesisIsolated ==
    (done.pc = "done" /\ done.reply # "none" /\ ~done.audio) =>
        /\ Count(done.ev, "final") = 1
        /\ Count(done.ev, "error") = 0
        /\ \A k \in 1..Len(done.ev) :
              done.ev[k].type = "final" =>
                  /\ done.ev[k].reply_preview = done.reply
                  /\ ~done.ev[k].reply_audio

\* C31: a _handle_pause that found the segment buffer empty (it flushed no
\* audio) has created no audio container, called no collaborator, emitted no
\* event and raised nothing, and on its return the gate is released (the
\* semaphore is free and the in-flight flag is reset).
C31_EmptyFlushIsNoop ==
    (done.pc = "done" /\ done.pcm16 = <<>>) =>
        /\ ~done.flushed
        /\ done.created = 0
        /\ done.path = 0
        /\ done.calls = {}
        /\ done.ev = <<>>
        /\ ~done.raised
        /\ ~pause_in_progress
        /\ pause_lock = 1

\* a turn has just returned after finding the buffer empty: the utterance
\* that followed its cut was rejected, which cleared the buffer
C31_Witness ==
    /\ done.pc = "done"
    /\ done.pcm16 = <<>>
    /\ done.cut_ring # <<>>
    /\ ring = <<>>
    /\ files = {}

\* C32: a receive() of a frame whose payload is None or cannot be normalized
\* returns the frame and leaves the detector state, the counters, the
\* remaining cooldown, the segment buffer, the in-flight flag and the
\* scheduled turns as they were; a valid frame received next steps the
\* detector.
C32_BadFrameIgnored ==
    [][/\ rx'.frame \in {"none_payload", "bad_samples"} =>
             /\ rx'.outcome = "returned"
             /\ ~rx'.vad
             /\ UNCHANGED <<detector, ring, pause_in_progress, tasks>>
       /\ (rx.frame \in {"none_payload", "bad_samples"} /\ rx'.frame = "pcm")
             => rx'.vad]_vars

\* an unprocessable frame has just been received in the middle of an
\* utterance, on a handler that logs every frame
C32_Witness ==
    /\ rx.frame \in {"none_payload", "bad_samples"}
    /\ state = "RECORDING"
    /\ silence_ms > 0
    /\ ring # <<>>
    /\ recv_log_every = 1

\* C33: between two receive() calls the detector state is IDLE, RECORDING or
\* COOLDOWN; the speech, silence and utterance counters are non-negative
\* multiples of frame_ms with speech + trailing silence <= utterance; and
\* in RECORDING at least one frame of speech has been counted and the
\* utterance is shorter than max_utt_ms.
C33_DetectorWellFormed ==
    /\ state \in {"IDLE", "RECORDING", "COOLDOWN"}
    /\ \A c \in {speech_ms, silence_ms, utt_ms} : c >= 0 /\ c % frame_ms = 0
    /\ speech_ms + silence_ms <= utt_ms
    /\ state = "RECORDING" => speech_ms >= frame_ms /\ utt_ms < max_utt_ms

\* RECORDING one frame short of the length cut, after a quiet frame that was
\* followed by speech again (speech + trailing silence < utterance)
C33_Witness ==
    /\ state = "RECORDING"
    /\ utt_ms = max_utt_ms - frame_ms
    /\ silence_ms = 0
    /\ speech_ms + silence_ms < utt_ms

\* the number of processed frames within which RECORDING is left:
\* ceil(max_utt_ms / frame_ms)
MaxFrames == (max_utt_ms + frame_ms - 1) \div frame_ms

\* C34: RECORDING never outlasts ceil(max_utt_ms / frame_ms) processed
\* frames, the starting frame included, whatever their energies: the
\* detector is never left recording with that many frames buffered since
\* the start, the frame processed with one fewer buffered ends in COOLDOWN,
\* and every cut (rejected, dispatched, schedule failed, or skipped because
\* a turn is in flight) ends in COOLDOWN with the full cooldown duration.
C34_RecordingBounded ==
    [][/\ state' = "RECORDING" => Len(ring') < MaxFrames
       /\ (rx'.vad /\ state = "RECORDING" /\ Len(ring) = MaxFrames - 1)
             => rx'.cut /\ state' = "COOLDOWN"
       /\ rx'.cut => state' = "COOLDOWN" /\ cooldown_left' = cooldown_ms]_vars

\* an utterance of loud frames only was cut by the length cap on its
\* ceil(max_utt_ms / frame_ms)-th frame while an earlier turn was in flight
C34_Witness ==
    /\ rx.cut_length /\ ~rx.cut_silence
    /\ rx.in_flight /\ ~rx.rejected /\ ~rx.dispatched
    /\ Len(ring) = MaxFrames
    /\ state = "COOLDOWN" /\ cooldown_left = cooldown_ms

\* the number of processed frames after a cut that cannot start RECORDING:
\* ceil(cooldown_ms / frame_ms) - 1
BlockedFrames == (cooldown_ms + frame_ms - 1) \div frame_ms - 1

\* the frames processed since the cut that began the running cooldown
SinceCut == (cooldown_ms - cooldown_left) \div frame_ms

\* C35: after a cut set the remaining cooldown to cooldown_ms, each of the
\* first ceil(cooldown_ms / frame_ms) - 1 processed frames leaves the state
\* COOLDOWN and starts nothing, however loud; the next processed frame, on
\* which the remaining cooldown first becomes <= 0, is tested against the
\* start threshold in the same receive(): at or above it the frame starts
\* RECORDING, is buffered and an Interrupt is scheduled, below it the
\* detector is IDLE.
C35_CooldownBlocks ==
    [][(state = "COOLDOWN" /\ rx'.vad) =>
          /\ cooldown_left' = cooldown_left - frame_ms
          /\ SinceCut < BlockedFrames =>
                /\ state' = "COOLDOWN"
                /\ ~rx'.started /\ ~rx'.buffered /\ ~rx'.interrupt
                /\ cooldown_left' > 0
          /\ SinceCut >= BlockedFrames =>
                /\ SinceCut = BlockedFrames
                /\ cooldown_left' <= 0
                /\ rx'.started = (rx'.rms >= rms_start)
                /\ rx'.started =>
                      /\ state' = "RECORDING"
                      /\ ring' = <<Frame(nstart', 1)>>
                      /\ speech_ms' = frame_ms /\ utt_ms' = frame_ms
                /\ ~rx'.started => state' = "IDLE" /\ ring' = ring]_vars

\* the frame that ended the cooldown of an earlier cut was loud: it started
\* the second utterance and the Interrupt was scheduled, one frame having
\* been held back by the cooldown before it
C35_Witness ==
    /\ rx.started /\ rx.interrupt
    /\ cooldown_left <= 0 /\ cooldown_left > -frame_ms
    /\ cooldown_left = cooldown_ms - (BlockedFrames + 1) * frame_ms
    /\ BlockedFrames > 0
    /\ state = "RECORDING"
    /\ nstart = 2

\* frame f arrived before frame g
Before(f, g) == f.u < g.u \/ (f.u = g.u /\ f.k < g.k)

\* the frames of a concatenated buffer
FramesOf(pcm) == {pcm[j] : j \in 1..Len(pcm)}

\* C36: whatever the interleaving of receive() and _handle_pause, the audio
\* buffers concatenated for distinct turns share no frame, and the frames of
\* each buffer are in the order in which they arrived.
C36_TurnsDisjoint ==
    /\ \A a, b \in 1..Len(archive.turns) :
          a # b => FramesOf(archive.turns[a]) \cap FramesOf(archive.turns[b]) = {}
    /\ \A a \in 1..Len(archive.turns) :
          \A j, l \in 1..Len(archive.turns[a]) :
              j < l => Before(archive.turns[a][j], archive.turns[a][l])

\* two turns were flushed with frames of one and the same utterance: the
\* first concatenation ran while receive() was still recording it
C36_Witness ==
    /\ Len(archive.turns) = 2
    /\ Len(archive.turns[1]) > 1
    /\ Len(archive.turns[2]) > 1
    /\ archive.turns[1][1].u = archive.turns[2][1].u

\* C37 (as claimed): a dispatched turn that concatenates the segment buffer
\* before any frame is received after its cut (and with no eviction: the
\* utterance cap is below the ring's capacity) has for audio every frame of
\* its utterance, from the starting frame through the cut frame, trailing
\* quiet frames included, and the audio lasts the utterance duration at
\* the cut.
C37_WholeUtterance ==
    \A i \in 1..Len(tasks) :
        (/\ tasks[i].pc = "clear"
         /\ tasks[i].turn = nstart
         /\ state = "COOLDOWN" /\ cooldown_left = cooldown_ms) =>
            /\ tasks[i].pcm16 =
                  [k \in 1..(tasks[i].cut_utt \div frame_ms) |->
                      Frame(tasks[i].turn, k)]
            /\ DurMs(tasks[i].pcm16) = tasks[i].cut_utt
            /\ utt_ms = tasks[i].cut_utt

\* C38: a receive() in which scheduling the turn raised at a qualifying cut
\* returns the frame with the in-flight flag False, the state COOLDOWN and
\* the full cooldown, and no turn scheduled; the flag is never set without
\* a scheduled turn, so that a later qualifying cut, no turn being in
\* progress, schedules again.
C38_ScheduleErrorRecovered ==
    [][/\ rx'.sched_error =>
             /\ rx'.outcome = "returned"
             /\ ~pause_in_progress'
             /\ state' = "COOLDOWN" /\ cooldown_left' = cooldown_ms
             /\ tasks' = tasks
       /\ pause_in_progress' => tasks' # <<>>
       /\ (rx'.cut /\ ~rx'.rejected /\ tasks = <<>>)
             => (rx'.dispatched \/ rx'.sched_error)]_vars

\* after a cut at which scheduling raised, the cut of the next utterance
\* dispatched a turn
C38_Witness ==
    /\ archive.failed = 1
    /\ rx.dispatched
    /\ nstart = 2
    /\ Len(tasks) = 1 /\ tasks[1].turn = 2
    /\ pause_in_progress

\* C39: a turn that wrote its audio and found it shorter than min_speech_ms
\* ended without calling the transcriber or any other collaborator and
\* without emitting an outbound event; its audio file is deleted and the
\* in-flight gate is released.
C39_ShortFlushSkipped ==
    (done.pc = "done" /\ done.path # 0
        /\ DurMs(done.pcm16) < min_speech_ms) =>
            /\ done.calls = {}
            /\ done.ev = <<>>
            /\ ~done.raised
            /\ done.path \notin files
            /\ ~pause_in_progress
            /\ pause_lock = 1

\* a turn cut with enough speech flushed less than min_speech_ms of audio
\* (an earlier start of speech had emptied the buffer) and has ended
C39_Witness ==
    /\ done.pc = "done" /\ done.path # 0
    /\ DurMs(done.pcm16) < min_speech_ms
    /\ DurMs(done.cut_ring) >= min_speech_ms
    /\ done.pcm16 # <<>>
    /\ files = {}

====
